---------------------------- MODULE Spec2Model ----------------------------
(***************************************************************************)
(* Model of the statistics ranking engine of GameNotesAgent_Public.py:     *)
(* stat_with_ranks, stat_with_ranks_qualified, extract_qual_flags,         *)
(* get_all_team_stats, get_all_player_stats, get_team_quad_stats,          *)
(* get_team_roster, and of the agent graph built from should_continue.     *)
(*                                                                         *)
(* Numbers.  A pandas float is modelled as a fixed-point integer counting  *)
(* units of 10^-FracDigits (FracDigits = 4: 90.0 is 900000 and 0.65 is     *)
(* 6500).  A missing cell (NaN / None) is the empty tuple NA, a present    *)
(* cell v is the 1-tuple <<v>>.  Strings that the code builds (the         *)
(* "value|nat|conf" encoding) are sequences of one-character strings.      *)
(***************************************************************************)
EXTENDS Integers, Sequences, FiniteSets, TLC

VARIABLES
    pc,        \* position of the modelled call: "input", "done" or "raised"
    path,      \* which operation the input was drawn for
    dtype,     \* dtype of the ranked column: "int" (int64) or "float" (float64)
    values,    \* the ranked column df[stat], one cell per row
    groups,    \* the conferenceId column, one cell per row
    flags,     \* per row, the dict extract_qual_flags returned (zone -> flag)
    stat,      \* name of the ranked column
    result,    \* the encoded column returned by the ranking function
    quals,     \* per row, the raw isQualArray cell
    df1,       \* first source table of an assembly (play-by-play aggregates)
    df2,       \* second source table of an assembly (box-score aggregates)
    req,       \* the requested team id / list of player ids
    merged,    \* the local `merged` of the assembly (result of pd.merge)
    ret,       \* what the assembly returned or raised
    node,      \* the node of the agent graph that runs next
    messages,  \* state["messages"] of the agent graph
    trace      \* the nodes the current run of the graph has executed, in order

vars == <<pc, path, dtype, values, groups, flags, stat, result, quals,
          df1, df2, req, merged, ret, node, messages, trace>>

rankVars == <<path, dtype, values, groups, flags, stat, result, quals>>
asmVars == <<df1, df2, req, merged, ret>>
graphVars == <<node, messages, trace>>

-----------------------------------------------------------------------------
(* Bounds of the model *)

MaxRows == 3

(* Program constants *)

TeamDecimals == 1
PlayerDecimals == 3

FracDigits == PlayerDecimals + 1

-----------------------------------------------------------------------------
(* Cells and small helpers *)

NA == <<>>
Some(x) == <<x>>

RECURSIVE Pow10(_)
Pow10(d) == IF d = 0 THEN 1 ELSE 10 * Pow10(d - 1)

Abs(x) == IF x < 0 THEN -x ELSE x

Digit(n) == CASE n = 0 -> "0" [] n = 1 -> "1" [] n = 2 -> "2" [] n = 3 -> "3"
              [] n = 4 -> "4" [] n = 5 -> "5" [] n = 6 -> "6" [] n = 7 -> "7"
              [] n = 8 -> "8" [] n = 9 -> "9"

\* str(n) of a non-negative Python int
RECURSIVE IntDigits(_)
IntDigits(n) == IF n < 10 THEN <<Digit(n)>>
                ELSE Append(IntDigits(n \div 10), Digit(n % 10))

\* str(int(x)) of a Python int
IntStr(n) == IF n < 0 THEN <<"-">> \o IntDigits(-n) ELSE IntDigits(n)

\* the d digits of f (0 <= f < 10^d), zero padded on the left
RECURSIVE PadDigits(_, _)
PadDigits(f, d) == IF d = 0 THEN <<>>
                   ELSE Append(PadDigits(f \div 10, d - 1), Digit(f % 10))

\* repr drops the trailing zeros of the fraction but keeps one digit
RECURSIVE StripZeros(_)
StripZeros(s) == IF Len(s) > 1 /\ s[Len(s)] = "0"
                 THEN StripZeros(SubSeq(s, 1, Len(s) - 1))
                 ELSE s

-----------------------------------------------------------------------------
(* Series.round(d) followed by astype(str) *)

\* mutant: the value is truncated, not rounded
RoundHalfEven_trunc(a, d) == a \div Pow10(FracDigits - d)

RECURSIVE Pow2(_)
Pow2(e) == IF e = 0 THEN 1 ELSE 2 * Pow2(e - 1)

\* 2^e modulo n
RECURSIVE Pow2Mod(_, _)
Pow2Mod(e, n) == IF e = 0 THEN 1 % n ELSE (2 * Pow2Mod(e - 1, n)) % n

\* floor(log2(n / den)) for n, den > 0: the binary exponent of n / den
RECURSIVE Log2Floor(_, _)
Log2Floor(n, den) ==
    IF n \div 2 >= den THEN 1 + Log2Floor(n, 2 * den)
    ELSE IF n < den THEN Log2Floor(2 * n, den) - 1
    ELSE 0

\* the significand of a float64 has 53 bits
MantissaBits == 53

\* the float64 that holds the decimal a / 10^FracDigits (a > 0) is the multiple
\* of 2^-s nearest to it, s == MantissaBits - 1 - exponent.  FloatError is the
\* float minus the decimal, in units of 10^-FracDigits * 2^-s.  (The decimal is
\* never halfway between two floats for the magnitudes below 2^31 of the model.)
FloatError(a) ==
    LET den == Pow10(FracDigits)
        s == MantissaBits - 1 - Log2Floor(a, den)
        r == ((a % den) * Pow2Mod(s, den)) % den
    IN  IF 2 * r < den THEN -r ELSE den - r

\* the product x * 10^d of a decimal tie (a = (q + 1/2) * 10^(FracDigits - d))
\* as float64 arithmetic gives it, compared with q + 1/2: -1 below, 0 equal,
\* 1 above.  The exact product is off q + 1/2 by FloatError(a) / (m * 2^s) and
\* is rounded to a float; it stays q + 1/2 unless it is more than half a
\* spacing away (a quarter below 1/2, where the floats are twice as dense)
TieProduct(a, d) ==
    LET m == Pow10(FracDigits - d)
        q == a \div m
        e == FloatError(a)
        lim == m * Pow2(Log2Floor(2 * q + 1, 2) - Log2Floor(a, Pow10(FracDigits)))
    IN  IF e > 0 /\ 2 * e > lim THEN 1
        ELSE IF e < 0 /\ (IF q = 0 THEN 4 ELSE 2) * (-e) > lim THEN -1
        ELSE 0

\* numpy rounds to d decimals by rint(x * 10^d) / 10^d: the float64 product is
\* rounded to the nearest integer, exact halves to even.  A decimal that is a
\* tie at d decimals goes the way its float64 product falls.
\* a >= 0 is a magnitude in units of 10^-FracDigits, the result is in units of 10^-d
RoundHalfEven(a, d) ==
    LET m == Pow10(FracDigits - d)
        q == a \div m
        r == a % m
    IN  IF 2 * r > m THEN q + 1
        ELSE IF 2 * r < m THEN q
        ELSE IF TieProduct(a, d) > 0 THEN q + 1
        ELSE IF TieProduct(a, d) < 0 THEN q
        ELSE IF q % 2 = 1 THEN q + 1 ELSE q

\* str() of the float64 that round(d) returns: sign, integer part, ".", fraction
FloatStr(v, d) ==
    LET mag == RoundHalfEven(Abs(v), d)
        frac == StripZeros(PadDigits(mag % Pow10(d), d))
    IN  (IF v < 0 THEN <<"-">> ELSE <<>>)
        \o IntDigits(mag \div Pow10(d)) \o <<".">>
        \o (IF frac = <<>> THEN <<"0">> ELSE frac)

\* df[stat].round(d).astype(str) for one cell: an int64 column is left unrounded
\* and prints without a decimal point, NaN prints as "nan"
ValStr(cell, dt, d) ==
    IF cell = NA THEN <<"n", "a", "n">>
    ELSE IF dt = "int" THEN IntStr(cell[1] \div Pow10(FracDigits))
    ELSE FloatStr(cell[1], d)

\* mutant: an absent rank is written as 0
RankStr_zero(r) == IF r = NA THEN <<"0">> ELSE IntStr(r[1])

\* lambda x: str(int(x)) if pd.notna(x) else '_'
RankStr(r) == IF r = NA THEN <<"_">> ELSE IntStr(r[1])

-----------------------------------------------------------------------------
(* Series.rank(ascending=False, method='dense') *)

\* mutant: method='min' (competition ranking, 1 + number of rows strictly above)
DenseRankAmong_min(col, S, i) ==
    1 + Cardinality({k \in S : col[k][1] > col[i][1]})

\* mutant: ascending=True
DenseRankAmong_asc(col, S, i) ==
    Cardinality({col[j][1] : j \in {k \in S : col[k][1] <= col[i][1]}})

\* dense descending rank of row i among the rows S (all with a value):
\* the number of distinct values of S that are >= the value of row i
DenseRankAmong(col, S, i) ==
    Cardinality({col[j][1] : j \in {k \in S : col[k][1] >= col[i][1]}})

\* mutant: the column is rounded to one decimal before it is ranked
SeriesRank_rounded(col) ==
    LET rc == [i \in DOMAIN col |->
                 IF col[i] = NA THEN NA
                 ELSE Some(RoundHalfEven(Abs(col[i][1]), TeamDecimals))]
    IN  [i \in DOMAIN col |->
            IF col[i] = NA THEN NA
            ELSE Some(DenseRankAmong(rc, {k \in DOMAIN col : col[k] # NA}, i))]

\* col.rank(ascending=False, method='dense'): NaN rows keep NaN (na_option='keep')
SeriesRank(col) ==
    [i \in DOMAIN col |->
        IF col[i] = NA THEN NA
        ELSE Some(DenseRankAmong(col, {k \in DOMAIN col : col[k] # NA}, i))]

\* mutant: the conference rank computed over the whole table
GroupRank_national(col, grp) == SeriesRank(col)

\* col.groupby(grp).rank(ascending=False, method='dense'): ranks within the rows
\* of the same group key; rows whose key is NaN are in no group (dropna) and
\* rows whose value is NaN keep NaN
GroupRank(col, grp) ==
    [i \in DOMAIN col |->
        IF col[i] = NA \/ grp[i] = NA THEN NA
        ELSE Some(DenseRankAmong(col,
                 {k \in DOMAIN col : col[k] # NA /\ grp[k] = grp[i]}, i))]

\* mutant: the two rank components are written in the other order
Encode_swapped(val, nat, conf) ==
    [i \in DOMAIN val |-> val[i] \o <<"|">> \o conf[i] \o <<"|">> \o nat[i]]

\* val + '|' + nat + '|' + conf, row by row
Encode(val, nat, conf) ==
    [i \in DOMAIN val |-> val[i] \o <<"|">> \o nat[i] \o <<"|">> \o conf[i]]

\* stat_with_ranks(df, stat, group_col): col = df[stat] with dtype dt, grp = df[group_col]
stat_with_ranks(col, dt, grp) ==
    LET nat == SeriesRank(col)
        conf == GroupRank(col, grp)
        val == [i \in DOMAIN col |-> ValStr(col[i], dt, TeamDecimals)]
    IN  Encode(val, [i \in DOMAIN col |-> RankStr(nat[i])],
                    [i \in DOMAIN col |-> RankStr(conf[i])])

-----------------------------------------------------------------------------
(* Zone qualification *)

NoZone == "None"

\* STAT_ZONE_MAP
STAT_ZONE_MAP ==
    [and1Pct |-> NoZone, and1Pct3P |-> NoZone, usagePct |-> NoZone,
     tsPct |-> NoZone, efgPct |-> NoZone,
     rim3sFgPct |-> "rim3s", lane2FgPct |-> "lane2", atr2FgPct |-> "atr2",
     paint2FgPct |-> "paint2", mid2FgPct |-> "mid2",
     c3FgPct |-> "c3", atb3FgPct |-> "atb3", lw3FgPct |-> "lw3",
     rw3FgPct |-> "rw3", lc3FgPct |-> "lc3", rc3FgPct |-> "rc3",
     tok3FgPct |-> "tok3", sht3FgPct |-> "sht3", lng3FgPct |-> "lng3"]

\* stat_zone_map.get(stat): None for a statistic the map does not hold
ZoneOf(st) == IF st \in DOMAIN STAT_ZONE_MAP THEN STAT_ZONE_MAP[st] ELSE NoZone

\* The qual_<zone> columns of df: .apply(extract_qual_flags).apply(pd.Series)
\* makes one column per zone that is a key of some row's dict
QualColumns(fl) == UNION {DOMAIN fl[i] : i \in DOMAIN fl}

\* df['qual_<zone>'][i]: the row's flag, NaN when its dict has no such key
QualCell(fl, zone, i) == IF zone \in DOMAIN fl[i] THEN Some(fl[i][zone]) ELSE NA

\* the mask `qualified` of stat_with_ranks_qualified.  A NaN flag and-ed with
\* a boolean is False (pandas fills the NaN of a logical operation with False)
Qualified(col, fl, st) ==
    LET zone == ZoneOf(st)
    IN  [i \in DOMAIN col |->
            IF zone = NoZone THEN col[i] # NA
            ELSE IF zone \notin QualColumns(fl) THEN col[i] # NA
            ELSE QualCell(fl, zone, i) = Some(TRUE) /\ col[i] # NA]

\* values.where(qualified)
Where(col, mask) == [i \in DOMAIN col |-> IF mask[i] THEN col[i] ELSE NA]

\* stat_with_ranks_qualified(df, stat, group_col, stat_zone_map)
stat_with_ranks_qualified(col, dt, grp, fl, st) ==
    LET qualified == Qualified(col, fl, st)
        nat_rank == SeriesRank(Where(col, qualified))
        conf_rank == GroupRank(Where(col, qualified), grp)
        val_str == [i \in DOMAIN col |-> ValStr(col[i], dt, PlayerDecimals)]
    IN  Encode(val_str, [i \in DOMAIN col |-> RankStr(nat_rank[i])],
                        [i \in DOMAIN col |-> RankStr(conf_rank[i])])

-----------------------------------------------------------------------------
(* The ranking functions applied to one column of a table *)

Whole(x) == x * Pow10(FracDigits)

\* cells of a team column: missing, 80, 84.96, 85, 90
TeamCells == {NA, Some(Whole(80)), Some(Whole(85) - 400), Some(Whole(85)),
              Some(Whole(90))}

\* cells of a player column: missing, 0.6496, 0.65
PlayerCells == {NA, Some(6496), Some(6500)}

\* decimal ties at three decimals: the float64 product of 0.5015 falls below
\* 501.5, that of 2.0005 above 2000.5, that of 0.6495 is 649.5
TieCells == {Some(5015), Some(20005), Some(6495)}

\* conferenceId cells: conference A is 1, conference B is 2
ConfCells == {Some(1), Some(2)}

\* the dict extract_qual_flags returns for a row: no entry for the zone, or a flag
EmptyDict == [z \in {} |-> TRUE]
FlagDicts == {EmptyDict} \cup {[z \in {"atr2"} |-> b] : b \in BOOLEAN}

\* statistics ranked on the player path: one zone-scoped, one global
PlayerStats == {"atr2FgPct", "usagePct"}

\* a count among keep_cols, which the source delivers as integers; no zone
CountStats == {"gp"}

\* cells of a count column: 12, 30
CountCells == {Some(Whole(12)), Some(Whole(30))}

Tuples(n, S) == [1..n -> S]

\* pd.DataFrame(json): a column is int64 only if every cell is a whole number
\* and none is missing, otherwise float64
IntColumn(col) == \A i \in DOMAIN col : col[i] # NA /\ col[i][1] % Pow10(FracDigits) = 0

NoTable == [cols |-> {}, rows |-> <<>>, dtypes |-> <<>>]
NoReturn == [kind |-> "none"]

\* the graph variables while no run of the agent graph is modelled
GraphIdle == node = "none" /\ messages = <<>> /\ trace = <<>>

\* the assembly variables while no assembly is modelled
AsmIdle ==
    /\ df1 = NoTable /\ df2 = NoTable /\ merged = NoTable
    /\ req = <<>> /\ ret = NoReturn

\* Conference ids are only compared for equality, so the conference of the
\* first row, when it has one, is called 1.  A player table of fewer than
\* MaxRows rows may hold a decimal tie in its first row.  A player column is
\* float64 (a rate) or int64 (a count, every cell a whole number); the count is
\* not zone-scoped, so the flags next to it are not read and are left empty.
InitRank ==
    /\ pc = "input"
    /\ result = <<>>
    /\ stat = ""
    /\ quals = <<>>
    /\ AsmIdle /\ GraphIdle
    /\ \E n \in 1..MaxRows :
        \/ /\ path = "team"
           /\ values \in Tuples(n, TeamCells)
           /\ groups \in Tuples(n, ConfCells \cup {NA})
           /\ groups[1] \in {Some(1), NA}
           /\ flags = [i \in 1..n |-> EmptyDict]
           /\ dtype \in {"int", "float"}
           /\ dtype = "int" => IntColumn(values)
        \/ /\ path = "player"
           /\ groups \in Tuples(n, ConfCells)
           /\ groups[1] = Some(1)
           /\ \/ /\ dtype = "float"
                 /\ values \in Tuples(n, PlayerCells \cup TieCells)
                 /\ \A i \in 1..n : values[i] \in TieCells => i = 1 /\ n < MaxRows
                 /\ flags \in Tuples(n, FlagDicts)
              \/ /\ dtype = "int"
                 /\ values \in Tuples(n, CountCells)
                 /\ IntColumn(values)
                 /\ flags = [i \in 1..n |-> EmptyDict]

\* df[stat] = stat_with_ranks(df, stat, 'conferenceId')
StatWithRanks ==
    /\ pc = "input" /\ path = "team"
    /\ stat' = "ptsScoredPg"
    /\ result' = stat_with_ranks(values, dtype, groups)
    /\ pc' = "done"
    /\ UNCHANGED <<path, dtype, values, groups, flags, quals>>
    /\ UNCHANGED asmVars
    /\ UNCHANGED graphVars

\* df[stat] = stat_with_ranks_qualified(df, stat, 'conferenceId', STAT_ZONE_MAP)
StatWithRanksQualified ==
    /\ pc = "input" /\ path = "player"
    /\ \E st \in (IF dtype = "int" THEN CountStats ELSE PlayerStats) :
        /\ stat' = st
        /\ result' = stat_with_ranks_qualified(values, dtype, groups, flags, st)
    /\ pc' = "done"
    /\ UNCHANGED <<path, dtype, values, groups, flags, quals>>
    /\ UNCHANGED asmVars
    /\ UNCHANGED graphVars

NextRank == StatWithRanks \/ StatWithRanksQualified

SpecRank == InitRank /\ [][NextRank]_vars

-----------------------------------------------------------------------------
(* Reading an encoded statistic back: split on "|", parse the rank fields *)

\* s.split(c)
RECURSIVE SplitOn(_, _)
SplitOn(s, c) ==
    IF \A i \in DOMAIN s : s[i] # c THEN <<s>>
    ELSE LET p == CHOOSE i \in DOMAIN s :
                     s[i] = c /\ \A j \in 1..(i - 1) : s[j] # c
         IN  <<SubSeq(s, 1, p - 1)>> \o SplitOn(SubSeq(s, p + 1, Len(s)), c)

Fields(s) == SplitOn(s, "|")

DigitChars == {"0", "1", "2", "3", "4", "5", "6", "7", "8", "9"}

DigitVal(c) == CHOOSE n \in 0..9 : Digit(n) = c

RECURSIVE ParseNat(_)
ParseNat(s) == IF s = <<>> THEN 0
               ELSE 10 * ParseNat(SubSeq(s, 1, Len(s) - 1)) + DigitVal(s[Len(s)])

IsNatStr(s) == s # <<>> /\ \A i \in DOMAIN s : s[i] \in DigitChars

\* a rank field: "_" reads as absent, digits as the integer
ReadRank(f) == IF f = <<"_">> THEN NA ELSE Some(ParseNat(f))

NatOf(i) == ReadRank(Fields(result[i])[2])
ConfOf(i) == ReadRank(Fields(result[i])[3])
ValOf(i) == Fields(result[i])[1]

Rows == DOMAIN values

\* the rows that were given a national rank
Ranked == {i \in Rows : NatOf(i) # NA}

WellFormed == \A i \in Rows :
    /\ Len(Fields(result[i])) = 3
    /\ \A k \in {2, 3} : Fields(result[i])[k] = <<"_">> \/ IsNatStr(Fields(result[i])[k])

-----------------------------------------------------------------------------
\* C1: for both ranking functions the national ranks given to the eligible rows
\* (those without the sentinel) are exactly 1..k, k the number of distinct values
\* among them; equal values share a rank and a strictly higher value has a
\* strictly smaller rank.
C1_DenseNoGaps ==
    pc = "done" =>
        /\ DOMAIN result = Rows
        /\ WellFormed
        /\ {NatOf(i)[1] : i \in Ranked} = 1..Cardinality({values[i][1] : i \in Ranked})
        /\ \A i, j \in Ranked :
            /\ values[i][1] = values[j][1] => NatOf(i) = NatOf(j)
            /\ values[i][1] > values[j][1] => NatOf(i)[1] < NatOf(j)[1]

\* C1 witness: a finished ranking with a tie and at least two distinct ranks
C1_Witness ==
    /\ pc = "done"
    /\ \E i, j, k \in Ranked :
        /\ i # j /\ NatOf(i) = NatOf(j)
        /\ NatOf(k) = Some(2)

\* C2: whenever both rank components of a row are present, the conference rank
\* is at most the national rank and at most the number of eligible rows with the
\* row's conferenceId; it is the dense descending rank among the eligible rows of
\* the same conference.
C2_ConferenceSubset ==
    pc = "done" =>
        \A i \in Rows :
            (NatOf(i) # NA /\ ConfOf(i) # NA) =>
                LET peers == {k \in Ranked : groups[k] = groups[i]}
                IN  /\ ConfOf(i)[1] <= NatOf(i)[1]
                    /\ ConfOf(i)[1] <= Cardinality(peers)
                    /\ ConfOf(i)[1] =
                         Cardinality({values[k][1] :
                             k \in {p \in peers : values[p][1] >= values[i][1]}})

\* C2 witness: a row ranked 2nd or worse nationally that is 1st in its conference
C2_Witness ==
    /\ pc = "done"
    /\ \E i \in Rows : NatOf(i) # NA /\ ConfOf(i) = Some(1) /\ NatOf(i)[1] >= 2

-----------------------------------------------------------------------------
(* Reading a value component back as a number *)

\* "12.34" as a count of 10^-FracDigits units; the parts around the point
DecParts(s) == SplitOn(s, ".")

IsDecimal(s) ==
    /\ Len(DecParts(s)) = 2
    /\ IsNatStr(DecParts(s)[1]) /\ IsNatStr(DecParts(s)[2])
    /\ Len(DecParts(s)[2]) <= FracDigits

ReadDecimal(s) ==
    Whole(ParseNat(DecParts(s)[1]))
    + ParseNat(DecParts(s)[2]) * Pow10(FracDigits - Len(DecParts(s)[2]))

\* the number of digits after the point
Decimals(s) == Len(DecParts(s)[2])

-----------------------------------------------------------------------------
ZoneRanked == pc = "done" /\ path = "player" /\ ZoneOf(stat) # NoZone

\* rows flagged qualified for the zone of the ranked statistic
Flagged == {i \in Rows : QualCell(flags, ZoneOf(stat), i) = Some(TRUE)}

\* rows that are flagged qualified and have a value
QualRows == {i \in Flagged : values[i] # NA}

GatedRanks ==
    /\ \A i \in Rows \ Flagged : NatOf(i) = NA /\ ConfOf(i) = NA
    /\ \A i \in QualRows :
        /\ NatOf(i) = Some(Cardinality({values[k][1] :
               k \in {q \in QualRows : values[q][1] >= values[i][1]}}))
        /\ ConfOf(i) = Some(Cardinality({values[k][1] :
               k \in {q \in QualRows : groups[q] = groups[i]
                                        /\ values[q][1] >= values[i][1]}}))

\* C3: for a zone-scoped statistic every row not flagged qualified for the zone
\* has sentinel national and conference ranks, and the qualified rows are ranked
\* as if those rows were not there.  It fails where no row of the table carries
\* a flag for the zone: the mask then falls back to the presence of the value
\* (lines 426-427) and the unflagged rows are ranked.
C3_Original == ZoneRanked => GatedRanks

-----------------------------------------------------------------------------
TeamRanked == pc = "done" /\ path = "team"

\* the scenario of three teams: conference A = {team1 90, team2 80}, B = {team3 85}
TeamScenario ==
    /\ TeamRanked
    /\ values = <<Some(Whole(90)), Some(Whole(80)), Some(Whole(85))>>
    /\ groups = <<Some(1), Some(1), Some(2)>>

\* C9 as stated: the team value component always has exactly one decimal place,
\* and the scenario gives "90.0|1|1", "80.0|3|2", "85.0|2|1", also when the
\* values arrive as integers.
C9_Original ==
    /\ TeamRanked =>
        \A i \in Rows : values[i] # NA =>
            IsDecimal(ValOf(i)) /\ Decimals(ValOf(i)) = 1
    /\ TeamScenario =>
        result = << <<"9", "0", ".", "0", "|", "1", "|", "1">>,
                    <<"8", "0", ".", "0", "|", "3", "|", "2">>,
                    <<"8", "5", ".", "0", "|", "2", "|", "1">> >>

\* C9 as amended: a float column renders each value rounded to the nearest tenth
\* with exactly one decimal place and an integer column renders the integer
\* without a decimal point; the scenario gives "90.0|1|1", "80.0|3|2", "85.0|2|1"
\* for float values and "90|1|1", "80|3|2", "85|2|1" for integer values.
C9_TeamEncoding ==
    /\ TeamRanked =>
        \A i \in Rows : values[i] # NA =>
            IF dtype = "float"
            THEN /\ IsDecimal(ValOf(i)) /\ Decimals(ValOf(i)) = 1
                 /\ 2 * Abs(ReadDecimal(ValOf(i)) - values[i][1])
                       <= Pow10(FracDigits - TeamDecimals)
            ELSE IsNatStr(ValOf(i)) /\ Whole(ParseNat(ValOf(i))) = values[i][1]
    /\ (TeamScenario /\ dtype = "float") =>
        result = << <<"9", "0", ".", "0", "|", "1", "|", "1">>,
                    <<"8", "0", ".", "0", "|", "3", "|", "2">>,
                    <<"8", "5", ".", "0", "|", "2", "|", "1">> >>
    /\ (TeamScenario /\ dtype = "int") =>
        result = << <<"9", "0", "|", "1", "|", "1">>,
                    <<"8", "0", "|", "3", "|", "2">>,
                    <<"8", "5", "|", "2", "|", "1">> >>

\* C9 witness: the scenario ranked with float values
C9_Witness == TeamScenario /\ dtype = "float" /\ NatOf(3) = Some(2)

-----------------------------------------------------------------------------
PlayerRanked == pc = "done" /\ path = "player"

\* a player flagged atr2 = false with atr2FgPct = 0.65
Atr2Scenario(i) ==
    /\ PlayerRanked /\ stat = "atr2FgPct"
    /\ values[i] = Some(6500)
    /\ QualCell(flags, "atr2", i) = Some(FALSE)

\* C10 as stated: the player value component has three decimal places, and the
\* unqualified 0.65 is encoded "0.650|_|_".
C10_Original ==
    /\ PlayerRanked =>
        \A i \in Rows : values[i] # NA =>
            IsDecimal(ValOf(i)) /\ Decimals(ValOf(i)) = 3
    /\ \A i \in Rows : Atr2Scenario(i) =>
        result[i] = <<"0", ".", "6", "5", "0", "|", "_", "|", "_">>

\* the value component the tie cell 0.5015, 2.0005 or 0.6495 is written as: the
\* float64 product with 1000 is 501.49999999999994, 2000.5000000000002, 649.5
TieStr(cell) ==
    IF cell = Some(5015) THEN <<"0", ".", "5", "0", "1">>
    ELSE IF cell = Some(20005) THEN <<"2", ".", "0", "0", "1">>
    ELSE <<"0", ".", "6", "5">>

\* C10 as amended: the player value component of a float column is the value
\* rounded to the nearest thousandth, written with at most three decimal places
\* (trailing zeros are dropped, one digit is always kept); 0.5015 is written
\* "0.501", 2.0005 "2.001" and 0.6495 "0.65"; the value component of an integer
\* column is the integer without a decimal point; the unqualified 0.65 is
\* encoded "0.65|_|_".
C10_PlayerEncoding ==
    /\ PlayerRanked =>
        \A i \in Rows : values[i] # NA =>
            IF dtype = "float"
            THEN /\ IsDecimal(ValOf(i))
                 /\ Decimals(ValOf(i)) \in 1..PlayerDecimals
                 /\ Decimals(ValOf(i)) > 1 =>
                      DecParts(ValOf(i))[2][Decimals(ValOf(i))] # "0"
                 /\ 2 * Abs(ReadDecimal(ValOf(i)) - values[i][1])
                        <= Pow10(FracDigits - PlayerDecimals)
                 /\ values[i] \in TieCells => ValOf(i) = TieStr(values[i])
            ELSE /\ IsNatStr(ValOf(i))
                 /\ Whole(ParseNat(ValOf(i))) = values[i][1]
    /\ \A i \in Rows : Atr2Scenario(i) =>
        result[i] = <<"0", ".", "6", "5", "|", "_", "|", "_">>

\* C10 witness: the scenario row next to a qualified row that is ranked
C10_Witness ==
    \E i, j \in Rows : Atr2Scenario(i) /\ NatOf(j) = Some(1)

-----------------------------------------------------------------------------
(* Tables (pandas DataFrames).  A table is its set of column names, its      *)
(* sequence of rows and the dtype ("int" for int64, "float" for float64) of  *)
(* each column pandas holds as numbers; a row maps the columns whose cells   *)
(* are modelled to their cells.  pd.DataFrame(json) of an empty list has no  *)
(* column at all.                                                            *)

\* an exception e raised at source line ln
Raised(e, ln) == [kind |-> "raised", exc |-> e, line |-> ln]
Returned(t) == [kind |-> "table", table |-> t]

\* column c of the records holds a value in some record (a column whose cells
\* are not modelled holds a number in every record)
Populated(rows, c) ==
    c \in DOMAIN rows[1] => \E i \in DOMAIN rows : rows[i][c] # NA

\* column c of the records holds a value in every record
Complete(rows, c) ==
    c \in DOMAIN rows[1] => \A i \in DOMAIN rows : rows[i][c] # NA

\* pd.DataFrame(records).  json maps each column whose JSON values are numbers
\* or null to the kind of its numbers, "int" or "float".  pandas infers int64
\* for integers without a null and float64 for other numbers; a column that is
\* null in every record is held as object and is no numeric column
DataFrame(cols, rows, json) ==
    IF rows = <<>> THEN NoTable
    ELSE [cols |-> cols, rows |-> rows,
          dtypes |-> [c \in {n \in (DOMAIN json) \cap cols : Populated(rows, n)} |->
                        IF json[c] = "int" /\ Complete(rows, c)
                        THEN "int" ELSE "float"]]

\* the dtypes of the columns in names
Restrict(dt, names) == [c \in (DOMAIN dt) \cap names |-> dt[c]]

\* the order of the modelled columns in a merged table
ColumnOrder == <<"teamId", "playerId", "dunkFgm", "atr2FgPct", "isQualArray",
                 "conferenceId", "isQualified", "fgPct", "usagePct", "fullName">>

Column(t, c) == [i \in DOMAIN t.rows |-> t.rows[i][c]]

\* df.drop(columns=names)
Drop(t, names) ==
    [cols |-> t.cols \ names,
     rows |-> [i \in DOMAIN t.rows |->
                 [c \in (DOMAIN t.rows[i]) \ names |-> t.rows[i][c]]],
     dtypes |-> Restrict(t.dtypes, (DOMAIN t.dtypes) \ names)]

\* mutant: the rows are not filtered
RowsWhereIn_all(t, key, ids) == t

\* df[df[key] == v] and df[df[key].isin(ids)]
RowsWhereIn(t, key, ids) ==
    [t EXCEPT !.rows = SelectSeq(t.rows, LAMBDA r : r[key][1] \in ids)]

\* mutant: how='left' (left rows without a partner are kept)
RECURSIVE JoinRows_left(_, _, _)
JoinRows_left(l, r, key) ==
    IF l = <<>> THEN <<>>
    ELSE LET m == SelectSeq(r, LAMBDA rr : rr[key] = Head(l)[key])
         IN  (IF m = <<>> THEN <<Head(l)>>
              ELSE [k \in DOMAIN m |-> Head(l) @@ m[k]])
             \o JoinRows_left(Tail(l), r, key)

\* the rows of pd.merge(l, r, on=key): inner join, in the order of the left rows
RECURSIVE JoinRows(_, _, _)
JoinRows(l, r, key) ==
    IF l = <<>> THEN <<>>
    ELSE LET m == SelectSeq(r, LAMBDA rr : rr[key] = Head(l)[key])
         IN  [k \in DOMAIN m |-> Head(l) @@ m[k]] \o JoinRows(Tail(l), r, key)

\* pd.merge(l, r, on=key).  A column other than the key that both tables hold
\* is kept twice, renamed <name>_x (left) and <name>_y (right)
Suffixed(t, shared, sfx) ==
    [cols |-> (t.cols \ shared) \cup {c \o sfx : c \in shared},
     rows |-> [i \in DOMAIN t.rows |->
                 LET r == t.rows[i]
                     keep == (DOMAIN r) \ shared
                     ren == {c \o sfx : c \in (DOMAIN r) \cap shared}
                 IN  [c \in keep \cup ren |->
                        IF c \in keep THEN r[c]
                        ELSE r[CHOOSE o \in (DOMAIN r) \cap shared : o \o sfx = c]]],
     dtypes |-> LET keep == (DOMAIN t.dtypes) \ shared
                    ren == {c \o sfx : c \in (DOMAIN t.dtypes) \cap shared}
                IN  [c \in keep \cup ren |->
                       IF c \in keep THEN t.dtypes[c]
                       ELSE t.dtypes[CHOOSE o \in (DOMAIN t.dtypes) \cap shared :
                                        o \o sfx = c]]]

Merge(l, r, key) ==
    LET shared == (l.cols \cap r.cols) \ {key}
        lx == Suffixed(l, shared, "_x")
        ry == Suffixed(r, shared, "_y")
    IN  [cols |-> lx.cols \cup ry.cols, rows |-> JoinRows(lx.rows, ry.rows, key),
         dtypes |-> lx.dtypes @@ ry.dtypes]

\* mutant: the key is not removed from the list of columns to drop
OverlapColumns_withkey(a, b, key) == a.cols \cap b.cols

\* overlap_columns_list after .remove(key)
OverlapColumns(a, b, key) == (a.cols \cap b.cols) \ {key}

\* mutant: the second source's copy of a shared column is dropped
Reconcile_firstwins(a, b, key) ==
    Merge(a, Drop(b, OverlapColumns(a, b, key)), key)

\* df1.drop(columns=overlap_columns_list); merged = pd.merge(df1, df2, on=key)
Reconcile(a, b, key) ==
    Merge(Drop(a, OverlapColumns(a, b, key)), b, key)

\* overlap_columns_list.remove(key) raises ValueError when a source lacks the key
CanReconcile(a, b, key) == key \in a.cols \cap b.cols

\* pd.merge(df1, df2, on=key) raises KeyError when a table lacks the key column
MergeFails(a, b, key) ==
    key \notin Drop(a, OverlapColumns(a, b, key)).cols \/ key \notin b.cols

\* mutant: writing a ranked column also blanks the conference key
SetColumn_clobber(t, c, enc) ==
    [t EXCEPT !.rows = [i \in DOMAIN t.rows |->
                          [t.rows[i] EXCEPT ![c] = enc[i], !["conferenceId"] = NA]],
              !.dtypes = Restrict(t.dtypes, (DOMAIN t.dtypes) \ {c})]

\* df[stat] = encoded: the column now holds strings
SetColumn(t, c, enc) ==
    [t EXCEPT !.rows = [i \in DOMAIN t.rows |-> [t.rows[i] EXCEPT ![c] = enc[i]]],
              !.dtypes = Restrict(t.dtypes, (DOMAIN t.dtypes) \ {c})]

\* select_dtypes(include='number').columns
numeric_cols(t) == DOMAIN t.dtypes

\* stats_to_rank: the numeric columns of t other than the key and conferenceId,
\* in column order
StatsToRank(t, key) ==
    SelectSeq(ColumnOrder, LAMBDA c : c \in numeric_cols(t) \ {key, "conferenceId"})

\* for stat in stats_to_rank: df[stat] = stat_with_ranks(df, stat, 'conferenceId')
RECURSIVE TeamRankLoop(_, _)
TeamRankLoop(t, order) ==
    IF order = <<>> THEN t
    ELSE TeamRankLoop(
            SetColumn(t, Head(order),
                stat_with_ranks(Column(t, Head(order)), t.dtypes[Head(order)],
                                Column(t, "conferenceId"))),
            Tail(order))

\* get_all_team_stats(compid, divisionid, teamid) given the two fetched tables
get_all_team_stats(a, b, teamid) ==
    IF ~CanReconcile(a, b, "teamId") THEN Raised("ValueError", 341)
    ELSE IF MergeFails(a, b, "teamId") THEN Raised("KeyError", 343)
    ELSE LET mg == Reconcile(a, b, "teamId")
         IN  IF "teamId" \notin numeric_cols(mg) THEN Raised("ValueError", 346)
             ELSE IF "conferenceId" \notin numeric_cols(mg)
             THEN Raised("ValueError", 347)
             ELSE LET df == TeamRankLoop(mg, StatsToRank(mg, "teamId"))
                      sel == RowsWhereIn(df, "teamId", {teamid})
                  IN  IF "isQualified" \notin sel.cols THEN Raised("KeyError", 351)
                      ELSE Returned(Drop(sel, {"isQualified"}))

-----------------------------------------------------------------------------
(* The two fetched team tables *)

MaxTeams == 2

RECURSIVE Ascending(_)
Ascending(S) == IF S = {} THEN <<>>
                ELSE LET lo == CHOOSE x \in S : \A y \in S : x <= y
                     IN  <<lo>> \o Ascending(S \ {lo})

\* pd.DataFrame of one record per id (no record, no columns); rec[id] holds the
\* cells of the modelled columns
TableOf(ids, cols, rec, json) ==
    DataFrame(cols, [k \in 1..Cardinality(ids) |-> rec[Ascending(ids)[k]]], json)

\* the numeric columns of the team sources: the ids are JSON integers, fgPct
\* is a JSON float, the dunk count is delivered as integers or as floats
TeamJson(dunkKind) ==
    [c \in {"teamId", "conferenceId", "dunkFgm", "fgPct"} |->
        CASE c = "dunkFgm" -> dunkKind
          [] c = "fgPct" -> "float"
          [] OTHER -> "int"]

\* play-by-play team aggregates: dunkFgm, and for the columns that the
\* box-score source has too, fgPct 40.0 and conferenceId 9
TeamTable1(ids, extra, dunk, dunkKind) ==
    TableOf(ids, {"teamId", "dunkFgm"} \cup extra,
        [id \in ids |-> [c \in {"teamId", "dunkFgm"} \cup extra |->
            CASE c = "teamId" -> Some(id)
              [] c = "dunkFgm" -> Some(Whole(dunk[id]))
              [] c = "fgPct" -> Some(Whole(40))
              [] c = "conferenceId" -> Some(9)]],
        TeamJson(dunkKind))

\* box-score team aggregates; fg[id] is the fgPct cell of team id
TeamTable2(ids, extra, conf, fg) ==
    TableOf(ids, {"teamId", "conferenceId", "isQualified"} \cup extra,
        [id \in ids |-> [c \in {"teamId", "conferenceId", "isQualified"} \cup extra |->
            CASE c = "teamId" -> Some(id)
              [] c = "conferenceId" -> Some(conf[id])
              [] c = "isQualified" -> Some(TRUE)
              [] c = "fgPct" -> fg[id]]],
        TeamJson("int"))

InitTeam ==
    /\ pc = "input" /\ path = "team"
    /\ dtype = "float" /\ values = <<>> /\ groups = <<>> /\ flags = <<>>
    /\ stat = "" /\ result = <<>> /\ quals = <<>>
    /\ GraphIdle
    /\ merged = NoTable /\ ret = NoReturn
    /\ req \in 1..MaxTeams
    /\ \E ids1, ids2 \in SUBSET (1..MaxTeams) :
       \E extra1 \in SUBSET {"fgPct", "conferenceId"} :
       \E extra2 \in SUBSET {"fgPct"} :
       \E dunk \in [ids1 -> {3, 5}] :
       \E dunkKind \in IF ids1 = {} THEN {"int"} ELSE {"int", "float"} :
       \E conf \in [ids2 -> {1, 2}] :
       \E fg \in [ids2 -> IF "fgPct" \in extra2
                          THEN {Some(Whole(45)), Some(Whole(47)), NA}
                          ELSE {NA}] :
          \* fgPct is null for no team, for the first team only or for every team
          /\ \A i \in ids2 : (fg[i] = NA /\ \E j \in ids2 : fg[j] # NA) =>
                                \A j \in ids2 : i <= j
          /\ df1 = TeamTable1(ids1, extra1, dunk, dunkKind)
          /\ df2 = TeamTable2(ids2, extra2, conf, fg)

GetAllTeamStats ==
    /\ pc = "input" /\ path = "team"
    /\ merged' = IF CanReconcile(df1, df2, "teamId") /\ ~MergeFails(df1, df2, "teamId")
                 THEN Reconcile(df1, df2, "teamId") ELSE NoTable
    /\ ret' = get_all_team_stats(df1, df2, req)
    /\ pc' = IF ret'.kind = "raised" THEN "raised" ELSE "done"
    /\ UNCHANGED <<df1, df2, req>>
    /\ UNCHANGED rankVars
    /\ UNCHANGED graphVars

-----------------------------------------------------------------------------
(* Player assembly *)

\* keep_cols, as a set
keep_cols ==
    {"playerId", "gs", "mins", "poss", "plusMinus", "orb", "drb", "reb",
     "blkd", "tf", "pitp", "scp", "fbpts", "tsa", "minsPg", "ptsScoredPg",
     "ftaPg", "astPg", "orbPg", "drbPg", "rebPg", "pfdPg", "tfPg", "scpPg",
     "pitpPg", "fbptsPg", "blkdPg", "tovPg", "ftaRate", "ftmRate", "orbPct",
     "drbPct", "rebPct", "astTov", "astPct", "astRatio", "blkPct",
     "blkdPerFga", "pfdPerFga", "stlPct", "tovPct", "stlTov", "pfEff",
     "stlPerPf", "blkPerPf", "scpPctPts", "fbptsPctPts", "pitpPctPts",
     "ftmPctPts", "fgm2PctPts", "fgm3PctPts", "vps", "hkmPct", "astUsage",
     "per", "warp", "ortgPlayer", "drtgPlayer", "ws", "ows", "dws", "rapm",
     "orapm", "drapm", "fullName", "height", "position", "classYr",
     "ptsScored", "ptsCreated", "nbaFgm3", "nbaFga3", "ast", "ast3", "ast2",
     "fga", "fga2", "fga3", "fgm", "fgm2", "fgm3", "astdPts", "ptsAstd",
     "rim3sFgmA", "rim3sFgmU", "rim3sAst", "lane2FgmA", "lane2FgmU",
     "lane2Ast", "fgmA", "fgm2A", "fgm3A", "dunkFgmA", "fgmU", "fgm2U",
     "fgm3U", "dunkFgmU", "ftm", "fta", "orbFg", "orbFt", "drbFg", "drbFt",
     "shotAtt", "shotAtt2P", "shotAtt3P", "pf", "pfd", "sflDrawn", "and1",
     "stl", "blk", "tov", "gp", "fgPct", "fg2Pct", "fg3Pct", "efgPct",
     "fga3Rate", "goodTakeRate", "rim3sFgPct", "rim3sFgaFreq", "rim3sFgaPg",
     "lane2FgPct", "lane2FgaFreq", "lane2FgaPg", "atr2FgPct", "paint2FgPct",
     "mid2FgPct", "c3FgPct", "atb3FgPct", "ftPct", "dunkFgPct", "layupFgPct",
     "usagePct", "isQualified", "tsPct", "ttsPct", "conferenceId"}

\* merged[keep_cols]: KeyError unless the table holds every column of keep_cols
Project(t, names) ==
    [cols |-> names,
     rows |-> [i \in DOMAIN t.rows |->
                 [c \in (DOMAIN t.rows[i]) \cap names |-> t.rows[i][c]]],
     dtypes |-> Restrict(t.dtypes, names)]

\* isQualArray cells: None, a value that is not a list, or a list of entries; an
\* entry is a dict (its keys mapped to values) or something that is not a dict
QNone == [type |-> "none"]
QScalar == [type |-> "str"]
QList(items) == [type |-> "list", items |-> items]
QPair(zone, flag) ==
    [type |-> "dict", d |-> [zoneName |-> zone, isQualified |-> flag]]
QNoFlag(zone) == [type |-> "dict", d |-> [zoneName |-> zone]]
QNotDict == [type |-> "str"]

\* d['zoneName'], d['isQualified'] of an entry: a non-dict entry raises
\* TypeError, a dict without one of the keys raises KeyError
EntryError(e) ==
    IF e.type # "dict" THEN "TypeError"
    ELSE IF {"zoneName", "isQualified"} \subseteq DOMAIN e.d THEN "none"
    ELSE "KeyError"

\* extract_qual_flags(arr): [exc |-> "none", val |-> dict] or [exc |-> error]
extract_qual_flags(arr) ==
    IF arr.type # "list" THEN [exc |-> "none", val |-> EmptyDict]
    ELSE IF \E k \in DOMAIN arr.items : EntryError(arr.items[k]) # "none"
    THEN LET k == CHOOSE k \in DOMAIN arr.items :
                     /\ EntryError(arr.items[k]) # "none"
                     /\ \A j \in 1..(k - 1) : EntryError(arr.items[j]) = "none"
         IN  [exc |-> EntryError(arr.items[k])]
    ELSE [exc |-> "none",
          val |-> [z \in {arr.items[k].d.zoneName : k \in DOMAIN arr.items} |->
                     LET last == CHOOSE k \in DOMAIN arr.items :
                                    /\ arr.items[k].d.zoneName = z
                                    /\ \A j \in DOMAIN arr.items :
                                         arr.items[j].d.zoneName = z => j <= k
                     IN  arr.items[last].d.isQualified]]

\* for stat in stats_to_rank: df[stat] = stat_with_ranks_qualified(df, stat, ...)
RECURSIVE PlayerRankLoop(_, _, _)
PlayerRankLoop(t, fl, order) ==
    IF order = <<>> THEN t
    ELSE PlayerRankLoop(
            SetColumn(t, Head(order),
                stat_with_ranks_qualified(Column(t, Head(order)), t.dtypes[Head(order)],
                                          Column(t, "conferenceId"), fl, Head(order))),
            fl, Tail(order))

\* lines 490-510 of get_all_player_stats, applied to the table `merged`
PlayerStage(mg, playerids) ==
    IF "isQualArray" \notin mg.cols THEN Raised("KeyError", 491)
    ELSE LET ex == [i \in DOMAIN mg.rows |-> extract_qual_flags(mg.rows[i]["isQualArray"])]
         IN  IF \E i \in DOMAIN ex : ex[i].exc # "none"
             THEN Raised(ex[CHOOSE i \in DOMAIN ex :
                               /\ ex[i].exc # "none"
                               /\ \A j \in 1..(i - 1) : ex[j].exc = "none"].exc, 457)
             ELSE IF "playerId" \notin numeric_cols(mg) THEN Raised("ValueError", 498)
             ELSE IF "conferenceId" \notin numeric_cols(mg)
             THEN Raised("ValueError", 499)
             ELSE LET fl == [i \in DOMAIN ex |-> ex[i].val]
                      df == PlayerRankLoop(mg, fl, StatsToRank(mg, "playerId"))
                      sel == RowsWhereIn(df, "playerId", playerids)
                  IN  IF "isQualified" \notin sel.cols THEN Raised("KeyError", 508)
                      ELSE Returned(Drop(sel, {"isQualArray", "isQualified"}))

\* the local `merged` after line 487, for tables that hold playerId
PlayerMerged(a, b, playerids) ==
    Reconcile(RowsWhereIn(a, "playerId", playerids),
              RowsWhereIn(b, "playerId", playerids), "playerId")

\* get_all_player_stats(compid, divisionid, playerids) given the two fetched tables
get_all_player_stats(a, b, playerids) ==
    IF "playerId" \notin a.cols THEN Raised("KeyError", 481)
    ELSE IF "playerId" \notin b.cols THEN Raised("KeyError", 482)
    ELSE IF MergeFails(a, b, "playerId") THEN Raised("KeyError", 487)
    ELSE LET mg == PlayerMerged(a, b, playerids)
         IN  IF ~(keep_cols \subseteq mg.cols) THEN Raised("KeyError", 488)
             ELSE PlayerStage(Project(mg, keep_cols), playerids)

-----------------------------------------------------------------------------
(* The two fetched player tables *)

MaxPlayers == 2

\* play-by-play player aggregates: the zone statistic and the qualification
\* record, and usagePct 0.1 when this source holds that column too
PlayerJson ==
    [c \in {"playerId", "conferenceId", "atr2FgPct", "usagePct"} |->
        IF c \in {"playerId", "conferenceId"} THEN "int" ELSE "float"]

PlayerTable1(ids, extra, atr, qual) ==
    TableOf(ids, {"playerId", "atr2FgPct", "isQualArray"} \cup extra,
        [id \in ids |-> [c \in {"playerId", "atr2FgPct", "isQualArray"} \cup extra |->
            CASE c = "playerId" -> Some(id)
              [] c = "atr2FgPct" -> Some(atr[id])
              [] c = "isQualArray" -> qual[id]
              [] c = "usagePct" -> Some(1000)]],
        PlayerJson)

\* box-score player aggregates: every column of keep_cols but the zone statistic
PlayerTable2(ids, conf) ==
    TableOf(ids, keep_cols \ {"atr2FgPct"},
        [id \in ids |-> [c \in {"playerId", "conferenceId", "usagePct"} |->
            CASE c = "playerId" -> Some(id)
              [] c = "conferenceId" -> Some(conf[id])
              [] c = "usagePct" -> Some(2000 + 100 * id)]],
        PlayerJson)

InitPlayer ==
    /\ pc = "input" /\ path = "player"
    /\ dtype = "float" /\ values = <<>> /\ groups = <<>> /\ flags = <<>>
    /\ stat = "" /\ result = <<>> /\ quals = <<>>
    /\ GraphIdle
    /\ merged = NoTable /\ ret = NoReturn
    /\ req \in SUBSET (1..MaxPlayers)
    /\ \E ids1, ids2 \in SUBSET (1..MaxPlayers) :
       \E extra1 \in SUBSET {"usagePct"} :
       \E atr \in [ids1 -> {6496, 6500}] :
       \E qual \in [ids1 -> {QList(<<QPair("atr2", b)>>) : b \in BOOLEAN}] :
       \E conf \in [ids2 -> {1, 2}] :
          /\ df1 = PlayerTable1(ids1, extra1, atr, qual)
          /\ df2 = PlayerTable2(ids2, conf)

GetAllPlayerStats ==
    /\ pc = "input" /\ path = "player"
    /\ merged' = IF CanReconcile(df1, df2, "playerId") /\ ~MergeFails(df1, df2, "playerId")
                 THEN PlayerMerged(df1, df2, req) ELSE NoTable
    /\ ret' = get_all_player_stats(df1, df2, req)
    /\ pc' = IF ret'.kind = "raised" THEN "raised" ELSE "done"
    /\ UNCHANGED <<df1, df2, req>>
    /\ UNCHANGED rankVars
    /\ UNCHANGED graphVars

InitAssembly == InitTeam \/ InitPlayer

NextAssembly == GetAllTeamStats \/ GetAllPlayerStats

SpecAssembly == InitAssembly /\ [][NextAssembly]_vars

-----------------------------------------------------------------------------
(* The qualification and ranking stage of the player assembly (lines 490-510) *)
(* on a merged table that holds the isQualArray column                        *)

MaxQualRows == 2

QualCells == {QNone, QScalar, QList(<<QNotDict>>), QList(<<QNoFlag("atr2")>>)}
             \cup {QList(<<QPair("atr2", b)>>) : b \in BOOLEAN}

InitQual ==
    /\ pc = "input" /\ path = "stage"
    /\ dtype = "float" /\ values = <<>> /\ groups = <<>> /\ flags = <<>>
    /\ stat = "" /\ result = <<>> /\ quals = <<>>
    /\ GraphIdle
    /\ df1 = NoTable /\ df2 = NoTable /\ ret = NoReturn
    /\ \E n \in 1..MaxQualRows :
       \E atr \in [1..n -> {Some(6496), Some(6500), NA}] :
       \E qual \in [1..n -> QualCells] :
       \E conf \in [1..n -> {1, 2}] :
       \E usage \in {Some(2000), NA} :
          \* atr2FgPct is null in no row, or in the last of several rows
          /\ \A i \in 1..n : atr[i] = NA => (i = n /\ n > 1)
          /\ req = 1..n
          /\ merged = DataFrame(keep_cols \cup {"isQualArray"},
                          [i \in 1..n |->
                             [playerId |-> Some(i), conferenceId |-> Some(conf[i]),
                              atr2FgPct |-> atr[i], usagePct |-> usage,
                              isQualArray |-> qual[i]]],
                          PlayerJson)

QualStage ==
    /\ pc = "input" /\ path = "stage"
    /\ ret' = PlayerStage(merged, req)
    /\ pc' = IF ret'.kind = "raised" THEN "raised" ELSE "done"
    /\ UNCHANGED <<df1, df2, req, merged>>
    /\ UNCHANGED rankVars
    /\ UNCHANGED graphVars

SpecQual == InitQual /\ [][QualStage]_vars

-----------------------------------------------------------------------------
(* Claims about the assemblies *)

Assembled == pc # "input" /\ path \in {"team", "player"}

Key == IF path = "team" THEN "teamId" ELSE "playerId"

\* the two tables handed to the merge: the player path first restricts both
\* sources to the requested ids
Left == IF path = "team" THEN df1 ELSE RowsWhereIn(df1, Key, req)
Right == IF path = "team" THEN df2 ELSE RowsWhereIn(df2, Key, req)

HaveKey == Key \in df1.cols \cap df2.cols

\* the columns other than the key that both sources hold
Shared == (df1.cols \cap df2.cols) \ {Key}

KeysOf(t) == {t.rows[i][Key][1] : i \in DOMAIN t.rows}

\* the row of table t with key k
RowOf(t, k) == t.rows[CHOOSE i \in DOMAIN t.rows : t.rows[i][Key][1] = k]

MergeRaised == ret.kind = "raised" /\ ret.line \in {341, 343, 485, 487}

\* C7: when the sources of a merge (team or player path) share a non-key column,
\* the merged table has exactly one column of that name, holding the second
\* source's values; the identifier column is never dropped, and the merge does
\* not fail when the identifier is the only shared column.
C7_SecondSourceWins ==
    (Assembled /\ HaveKey) =>
        /\ ~MergeRaised
        /\ Key \in merged.cols
        /\ \A i \in DOMAIN merged.rows : Key \in DOMAIN merged.rows[i]
        /\ KeysOf(merged) \subseteq KeysOf(Left) \cap KeysOf(Right)
        /\ \A c \in Shared :
            /\ c \in merged.cols
            /\ (c \o "_x") \notin merged.cols /\ (c \o "_y") \notin merged.cols
            /\ \A i \in DOMAIN merged.rows :
                 c \in DOMAIN RowOf(Right, merged.rows[i][Key][1]) =>
                    /\ c \in DOMAIN merged.rows[i]
                    /\ merged.rows[i][c] = RowOf(Right, merged.rows[i][Key][1])[c]
                    /\ merged.rows[i][c] # RowOf(Left, merged.rows[i][Key][1])[c]

\* C7 witness: a merge (team or player path) produced rows from sources that
\* share a statistic whose values differ between them
C7_Witness ==
    /\ Assembled /\ HaveKey /\ merged.rows # <<>>
    /\ \/ path = "team" /\ {"fgPct", "conferenceId"} \subseteq Shared
       \/ path = "player" /\ "usagePct" \in Shared

\* C8: with no overlapping non-key columns the merged table is the plain inner
\* join on the identifier: one row for each identifier present in both sources
\* and no other row, every column of either source exactly once, every cell as in
\* its source.
C8_PlainInnerJoin ==
    (Assembled /\ HaveKey /\ Shared = {}) =>
        /\ ~MergeRaised
        /\ merged.cols = df1.cols \cup df2.cols
        /\ KeysOf(merged) = KeysOf(Left) \cap KeysOf(Right)
        /\ Len(merged.rows) = Cardinality(KeysOf(Left) \cap KeysOf(Right))
        /\ \A i \in DOMAIN merged.rows :
            LET k == merged.rows[i][Key][1]
            IN  /\ DOMAIN merged.rows[i] =
                      (DOMAIN RowOf(Left, k)) \cup (DOMAIN RowOf(Right, k))
                /\ \A c \in DOMAIN RowOf(Left, k) : merged.rows[i][c] = RowOf(Left, k)[c]
                /\ \A c \in DOMAIN RowOf(Right, k) : merged.rows[i][c] = RowOf(Right, k)[c]

\* C8 witness: a merge without shared columns that kept one identifier and
\* dropped another that only the first source holds
C8_Witness ==
    /\ Assembled /\ HaveKey /\ Shared = {}
    /\ merged.rows # <<>>
    /\ KeysOf(Left) \ KeysOf(Right) # {}

\* the table the call returned holds exactly the requested ids
ReturnsRequested ==
    /\ ret.kind = "table"
    /\ {ret.table.rows[i]["playerId"][1] : i \in DOMAIN ret.table.rows} = req

\* C6: the table returned by get_all_player_stats has a row for every requested
\* player id and no row for any other id.
C6_Original == (Assembled /\ path = "player") => ReturnsRequested

\* the whole population: the two sources merged without the request filter
Population == Reconcile(df1, df2, "playerId")

\* players of the population that are eligible for atr2FgPct
EligibleIds ==
    {Population.rows[i]["playerId"][1] : i \in
        {j \in DOMAIN Population.rows :
            LET e == extract_qual_flags(Population.rows[j]["isQualArray"])
            IN  e.exc = "none" /\ "atr2" \in DOMAIN e.val /\ e.val["atr2"]}}

\* dense national rank of player k for atr2FgPct among the whole population
PopulationRank(k) ==
    Cardinality({RowOf(Population, q)["atr2FgPct"][1] : q \in
        {e \in EligibleIds : RowOf(Population, e)["atr2FgPct"][1]
                                >= RowOf(Population, k)["atr2FgPct"][1]}})

\* C5: the ranks get_all_player_stats reports for a requested player are the
\* player's dense ranks among all eligible players of the fetched population.
C5_Original ==
    (Assembled /\ path = "player" /\ HaveKey) =>
        /\ ret.kind = "table"
        /\ \A i \in DOMAIN ret.table.rows :
            LET k == ret.table.rows[i]["playerId"][1]
            IN  k \in EligibleIds =>
                  ReadRank(Fields(ret.table.rows[i]["atr2FgPct"])[2])
                      = Some(PopulationRank(k))

\* row i of the merged table has no usable qualification record: not a list,
\* or a list with an entry that is not a {zoneName, isQualified} dict
Unusable(i) == LET q == merged.rows[i]["isQualArray"]
               IN  q.type # "list" \/ \E k \in DOMAIN q.items :
                                          EntryError(q.items[k]) # "none"

\* C4: a row whose qualification record is absent or malformed does not make the
\* player assembly fail, and its zone-scoped statistics get sentinel ranks, also
\* when no row of the table carries a usable record.
C4_Original ==
    (pc # "input" /\ path = "stage") =>
        /\ ret.kind = "table"
        /\ \A i \in DOMAIN merged.rows : Unusable(i) =>
              /\ Fields(ret.table.rows[i]["atr2FgPct"])[2] = <<"_">>
              /\ Fields(ret.table.rows[i]["atr2FgPct"])[3] = <<"_">>

-----------------------------------------------------------------------------
(* Further claims about the ranking of one column *)

RankDone == pc = "done" /\ path \in {"team", "player"}

\* C11: ranks are computed on the full-precision values: two ranked rows whose
\* values differ but whose serialized value components are the same string have
\* different national ranks, the larger raw value having the smaller rank.
C11_RankBeforeRounding ==
    RankDone =>
        \A i, j \in Ranked :
            (values[i][1] > values[j][1] /\ ValOf(i) = ValOf(j)) =>
                NatOf(i)[1] < NatOf(j)[1]

\* C11 witness: on each path's cells, two ranked rows with different values and
\* the same value string ("85.0" for 84.96 and 85, "0.65" for 0.6496 and 0.65)
C11_Witness ==
    /\ RankDone
    /\ \E i, j \in Ranked :
        /\ values[i][1] > values[j][1] /\ ValOf(i) = ValOf(j)
        /\ NatOf(i) = Some(1) /\ NatOf(j) = Some(2)

\* the ranks the ranking function computed before it wrote them as strings
NatComputed ==
    IF path = "team" THEN SeriesRank(values)
    ELSE SeriesRank(Where(values, Qualified(values, flags, stat)))

ConfComputed ==
    IF path = "team" THEN GroupRank(values, groups)
    ELSE GroupRank(Where(values, Qualified(values, flags, stat)), groups)

\* the rounded value the value component stands for, in units of 10^-FracDigits
RoundedValue(i) ==
    IF dtype = "int" THEN values[i][1]
    ELSE LET d == IF path = "team" THEN TeamDecimals ELSE PlayerDecimals
         IN  RoundHalfEven(values[i][1], d) * Pow10(FracDigits - d)

\* the value component read back as a number
ReadValue(s) == IF IsNatStr(s) THEN Whole(ParseNat(s)) ELSE ReadDecimal(s)

\* "58.9|5|2" and "23.5|_|3"
Example1 == <<"5", "8", ".", "9", "|", "5", "|", "2">>
Example2 == <<"2", "3", ".", "5", "|", "_", "|", "3">>

\* C17: every encoded statistic has exactly three "|"-separated components; each
\* rank component is "_" or a positive integer written with digits only; reading
\* the string back gives the rounded value and the two ranks that were encoded,
\* "_" reading as absent; "58.9|5|2" reads as 58.9, 5, 2 and "23.5|_|3" as 23.5,
\* absent, 3.
C17_RoundTrip ==
    /\ RankDone =>
        /\ \A i \in Rows :
            LET f == Fields(result[i])
                nat == NatComputed[i]
                conf == ConfComputed[i]
            IN  /\ Len(f) = 3
                /\ \A k \in {2, 3} :
                    \/ f[k] = <<"_">>
                    \/ /\ IsNatStr(f[k])
                       /\ ParseNat(f[k]) >= 1
                       /\ f[k][1] # "0"
                /\ ReadRank(f[2]) = nat
                /\ ReadRank(f[3]) = conf
                /\ values[i] # NA => ReadValue(f[1]) = RoundedValue(i)
    /\ Len(Fields(Example1)) = 3 /\ Len(Fields(Example2)) = 3
    /\ ReadValue(Fields(Example1)[1]) = Whole(58) + 9 * Pow10(FracDigits - 1)
    /\ ReadRank(Fields(Example1)[2]) = Some(5)
    /\ ReadRank(Fields(Example1)[3]) = Some(2)
    /\ ReadValue(Fields(Example2)[1]) = Whole(23) + 5 * Pow10(FracDigits - 1)
    /\ ReadRank(Fields(Example2)[2]) = NA
    /\ ReadRank(Fields(Example2)[3]) = Some(3)

\* C17 witness: a row whose national and conference ranks differ was read back,
\* next to a row with sentinel ranks
C17_Witness ==
    /\ RankDone
    /\ \E i, j \in Rows :
        /\ NatOf(i) = Some(2) /\ ConfOf(i) = Some(1)
        /\ values[i] # NA /\ ReadValue(ValOf(i)) = RoundedValue(i)
        /\ NatOf(j) = NA /\ ConfOf(j) = NA

-----------------------------------------------------------------------------
\* C13: once the two team sources are merged, get_all_team_stats does not raise:
\* it returns a table with zero rows when the requested team id is not in the
\* merged table, and with exactly one row, that of the requested id, when it is
\* (every team id occurs at most once in each source).
C13_AbsentTeamEmpty ==
    (Assembled /\ path = "team" /\ HaveKey) =>
        /\ ret.kind = "table"
        /\ IF req \in KeysOf(merged)
           THEN /\ Len(ret.table.rows) = 1
                /\ ret.table.rows[1]["teamId"] = Some(req)
           ELSE ret.table.rows = <<>>

\* C13 witness: the merged table holds another team but not the requested one,
\* and the call returned an empty table
C13_Witness ==
    /\ Assembled /\ path = "team" /\ HaveKey
    /\ merged.rows # <<>> /\ req \notin KeysOf(merged)
    /\ ret.kind = "table" /\ ret.table.rows = <<>>

-----------------------------------------------------------------------------
(* get_team_quad_stats: the per-game rows of one team split by opponent quad *)

MaxGames == 3

\* the columns dropped from the grouped means
QuadDropped ==
    {"overallWins", "overallLosses", "leagueId", "competitionId", "gameId",
     "teamId", "homeId", "conferenceId", "divisionId", "teamIdAgst",
     "conferenceIdAgst", "divisionIdAgst", "apPollAgst", "teamGameRecency",
     "netRankAgst", "confWins", "confLosses"}

\* np.where((quadAgst == 'quad1') | (quadAgst == 'quad2'), 1, 0) for one row
Q1OR2(r) == IF r["quadAgst"] \in {Some("quad1"), Some("quad2")} THEN 1 ELSE 0

RECURSIVE SumCells(_)
SumCells(col) == IF col = <<>> THEN 0
                 ELSE (IF Head(col) = NA THEN 0 ELSE Head(col)[1]) + SumCells(Tail(col))

\* Series.mean(): missing cells are skipped, no cell at all gives NaN; the
\* quotient is kept to 10^-FracDigits
Mean(col) ==
    LET present == SelectSeq(col, LAMBDA x : x # NA)
    IN  IF present = <<>> THEN NA ELSE Some(SumCells(present) \div Len(present))

\* quadGroup.map({1: 'Quad 1 & 2', 0: 'Quad 3 & 4'})
QuadLabel(g) == IF g = 1 THEN "Quad 1 & 2" ELSE "Quad 3 & 4"

\* df.groupby('Q1OR2')[numeric_cols].mean().reset_index(): one row per flag value
\* that occurs, in ascending order of the flag
GroupMeans(t) ==
    LET keys == Ascending({Q1OR2(t.rows[i]) : i \in DOMAIN t.rows})
        data == (DOMAIN t.rows[1]) \cap numeric_cols(t)
    IN  [cols |-> {"Q1OR2"} \cup numeric_cols(t),
         rows |-> [k \in DOMAIN keys |->
                    [c \in data \cup {"Q1OR2"} |->
                       IF c = "Q1OR2" THEN keys[k]
                       ELSE Mean(Column(
                              [t EXCEPT !.rows = SelectSeq(t.rows,
                                   LAMBDA r : Q1OR2(r) = keys[k])], c))]],
         dtypes |-> [c \in {"Q1OR2"} \cup numeric_cols(t) |->
                       IF c = "Q1OR2" THEN "int" ELSE "float"]]

\* rename Q1OR2 to quadGroup and map the flag to the bucket label
LabelGroups(t) ==
    [cols |-> (t.cols \ {"Q1OR2"}) \cup {"quadGroup"},
     rows |-> [i \in DOMAIN t.rows |->
                 [c \in ((DOMAIN t.rows[i]) \ {"Q1OR2"}) \cup {"quadGroup"} |->
                    IF c = "quadGroup" THEN QuadLabel(t.rows[i]["Q1OR2"])
                    ELSE t.rows[i][c]]],
     dtypes |-> Restrict(t.dtypes, (DOMAIN t.dtypes) \ {"Q1OR2"})]

\* get_team_quad_stats(compid, teamid) given the fetched per-game table
get_team_quad_stats(t) ==
    IF "quadAgst" \notin t.cols THEN Raised("KeyError", 364)
    ELSE LET g == GroupMeans(t)
         IN  IF ~(QuadDropped \subseteq g.cols) THEN Raised("KeyError", 366)
             ELSE Returned(LabelGroups(Drop(g, QuadDropped)))

\* quadAgst of a game: one of the four quads, or missing
QuadCells == {Some("quad1"), Some("quad2"), Some("quad3"), Some("quad4"), NA}

\* apPollAgst of a game: the opponent's poll rank, or missing
PollCells == {Some(Whole(10)), NA}

\* the numeric columns of the per-game source, all JSON integers
GameJson == [c \in QuadDropped \cup {"ptsScored"} |-> "int"]

\* the per-game table: game i with its opponent quad, its points and the poll
\* rank of the opponent; the numbers of every column, gameId included, are in
\* units of 10^-FracDigits, as the means taken of them are
GameTable(quad, pts, poll) ==
    DataFrame(QuadDropped \cup {"quadAgst", "ptsScored"},
        [i \in DOMAIN quad |->
            [gameId |-> Some(Whole(i)), quadAgst |-> quad[i],
             ptsScored |-> Some(Whole(pts[i])), apPollAgst |-> poll[i]]],
        GameJson)

InitQuad ==
    /\ pc = "input" /\ path = "quad"
    /\ dtype = "float" /\ values = <<>> /\ groups = <<>> /\ flags = <<>>
    /\ stat = "" /\ result = <<>> /\ quals = <<>>
    /\ GraphIdle
    /\ df2 = NoTable /\ merged = NoTable /\ ret = NoReturn
    /\ req = 1
    /\ \E n \in 1..MaxGames :
       \E quad \in Tuples(n, QuadCells) :
       \E pts \in Tuples(n, {60, 80}) :
       \E poll \in Tuples(n, PollCells) :
          df1 = GameTable(quad, pts, poll)

GetTeamQuadStats ==
    /\ pc = "input" /\ path = "quad"
    /\ ret' = get_team_quad_stats(df1)
    /\ pc' = IF ret'.kind = "raised" THEN "raised" ELSE "done"
    /\ UNCHANGED <<df1, df2, req, merged>>
    /\ UNCHANGED rankVars
    /\ UNCHANGED graphVars

SpecQuad == InitQuad /\ [][GetTeamQuadStats]_vars

QuadDone == pc # "input" /\ path = "quad"

\* the games whose opponent quad is one of qs
GamesOf(qs) == {i \in DOMAIN df1.rows : df1.rows[i]["quadAgst"] \in qs}

\* the mean of ptsScored over the games G
MeanOver(G) == Mean(Column([df1 EXCEPT !.rows =
                    SelectSeq(df1.rows, LAMBDA r : r["gameId"][1] \in {Whole(i) : i \in G})],
                 "ptsScored"))

\* the rows of the returned table with bucket label l
RowsLabelled(l) == {i \in DOMAIN ret.table.rows : ret.table.rows[i]["quadGroup"] = l}

\* C14: get_team_quad_stats returns exactly two rows for any non-empty set of
\* games, one labelled "Quad 1 & 2" and one labelled "Quad 3 & 4".
C14_Original ==
    QuadDone =>
        /\ ret.kind = "table"
        /\ Len(ret.table.rows) = 2
        /\ Cardinality(RowsLabelled("Quad 1 & 2")) = 1
        /\ Cardinality(RowsLabelled("Quad 3 & 4")) = 1

\* the bucket row labelled l is the mean over exactly the games G: it is there
\* with that mean when G has a game, and it is not there when G has none
BucketIs(l, G) ==
    IF G = {} THEN RowsLabelled(l) = {}
    ELSE /\ Cardinality(RowsLabelled(l)) = 1
         /\ \A i \in RowsLabelled(l) : ret.table.rows[i]["ptsScored"] = MeanOver(G)

\* C15: the "Quad 1 & 2" row averages exactly the games whose opponent quad is 1
\* or 2 and the "Quad 3 & 4" row exactly those whose opponent quad is 3 or 4; a
\* game without a quad contributes to neither row.
C15_Original ==
    QuadDone =>
        /\ ret.kind = "table"
        /\ BucketIs("Quad 1 & 2", GamesOf({Some("quad1"), Some("quad2")}))
        /\ BucketIs("Quad 3 & 4", GamesOf({Some("quad3"), Some("quad4")}))

-----------------------------------------------------------------------------
(* get_team_roster: the six players of a team with the most minutes *)

MaxRoster == 7

\* head(6)
RosterSize == 6

\* mutant: the usage rate is not used to break ties
SortsBefore_minsonly(r, q) == r["minsPg"][1] > q["minsPg"][1]

\* row r sorts strictly before row q under by=['minsPg', 'usagePct'], ascending=False
SortsBefore(r, q) ==
    \/ r["minsPg"][1] > q["minsPg"][1]
    \/ r["minsPg"][1] = q["minsPg"][1] /\ r["usagePct"][1] > q["usagePct"][1]

\* df.sort_values(by=['minsPg', 'usagePct'], ascending=False): a stable sort, rows
\* with equal keys keep their order
RECURSIVE SortValues(_)
SortValues(rows) ==
    IF rows = <<>> THEN <<>>
    ELSE LET top == CHOOSE i \in DOMAIN rows :
                       /\ \A j \in DOMAIN rows : ~SortsBefore(rows[j], rows[i])
                       /\ \A j \in 1..(i - 1) : SortsBefore(rows[i], rows[j])
         IN  <<rows[top]>> \o SortValues(SubSeq(rows, 1, top - 1)
                                          \o SubSeq(rows, top + 1, Len(rows)))

\* df.head(n)
Head6(rows) == SubSeq(rows, 1, IF Len(rows) < RosterSize THEN Len(rows) ELSE RosterSize)

\* get_team_roster(compid, teamid, divisionid) given the fetched player table
get_team_roster(t, teamid) ==
    IF "teamId" \notin t.cols THEN Raised("KeyError", 521)
    ELSE IF ~({"minsPg", "usagePct"} \subseteq t.cols) THEN Raised("KeyError", 522)
    ELSE IF ~({"playerId", "fullName"} \subseteq t.cols) THEN Raised("KeyError", 523)
    ELSE LET mine == RowsWhereIn(t, "teamId", {teamid})
             top == Head6(SortValues(mine.rows))
         IN  Returned(Project([mine EXCEPT !.rows = top],
                              {"playerId", "fullName"}))

\* the display name of player i
NameOf(i) == Some(<<"P">> \o IntStr(i))

\* the fetched player table: player i with team, minutes per game and usage rate
RosterTable(team, mins, usage) ==
    DataFrame({"playerId", "fullName", "teamId", "minsPg", "usagePct"},
        [i \in DOMAIN team |->
            [playerId |-> Some(i), fullName |-> NameOf(i),
             teamId |-> Some(team[i]),
             minsPg |-> Some(Whole(mins[i])),
             usagePct |-> Some(usage[i])]],
        [c \in {"playerId", "teamId", "minsPg", "usagePct"} |->
            IF c \in {"playerId", "teamId"} THEN "int" ELSE "float"])

InitRoster ==
    /\ pc = "input" /\ path = "roster"
    /\ dtype = "float" /\ values = <<>> /\ groups = <<>> /\ flags = <<>>
    /\ stat = "" /\ result = <<>> /\ quals = <<>>
    /\ GraphIdle
    /\ df2 = NoTable /\ merged = NoTable /\ ret = NoReturn
    /\ req = 1
    /\ \E n \in 1..MaxRoster :
       \E other \in {0, 1} :
       \E mins \in Tuples(n, {10, 20}) :
       \E usage \in Tuples(n, {2000, 2500}) :
          df1 = RosterTable([i \in 1..n |-> IF i <= other THEN 2 ELSE 1], mins, usage)

GetTeamRoster ==
    /\ pc = "input" /\ path = "roster"
    /\ ret' = get_team_roster(df1, req)
    /\ pc' = IF ret'.kind = "raised" THEN "raised" ELSE "done"
    /\ UNCHANGED <<df1, df2, req, merged>>
    /\ UNCHANGED rankVars
    /\ UNCHANGED graphVars

SpecRoster == InitRoster /\ [][GetTeamRoster]_vars

RosterDone == pc # "input" /\ path = "roster"

\* the players of the requested team, and those the call returned
TeamPlayers == {i \in DOMAIN df1.rows : df1.rows[i]["teamId"] = Some(req)}
Returned6 == {ret.table.rows[k]["playerId"][1] : k \in DOMAIN ret.table.rows}

\* the (minsPg, usagePct) pair of player o is lexicographically greater than p's
PairGreater(o, p) ==
    \/ df1.rows[o]["minsPg"][1] > df1.rows[p]["minsPg"][1]
    \/ /\ df1.rows[o]["minsPg"][1] = df1.rows[p]["minsPg"][1]
       /\ df1.rows[o]["usagePct"][1] > df1.rows[p]["usagePct"][1]

\* C16: get_team_roster returns only players of the requested team, each once,
\* six of them when the team has six or more and all of them otherwise; no
\* omitted player of the team has a greater (minsPg, usagePct) pair than a
\* returned one; the result holds the playerId and fullName columns only.
C16_TopSix ==
    RosterDone =>
        /\ ret.kind = "table"
        /\ ret.table.cols = {"playerId", "fullName"}
        /\ \A k \in DOMAIN ret.table.rows :
              /\ DOMAIN ret.table.rows[k] = {"playerId", "fullName"}
              /\ ret.table.rows[k]["fullName"] = NameOf(ret.table.rows[k]["playerId"][1])
        /\ Returned6 \subseteq TeamPlayers
        /\ Cardinality(Returned6) = Len(ret.table.rows)
        /\ Len(ret.table.rows) = IF Cardinality(TeamPlayers) >= RosterSize
                                 THEN RosterSize ELSE Cardinality(TeamPlayers)
        /\ \A o \in TeamPlayers \ Returned6 : \A p \in Returned6 : ~PairGreater(o, p)

\* C16 witness: a team of seven of which six were returned; the omitted player
\* comes earlier in the table than a returned player with the same minutes and
\* has the lower usage rate
C16_Witness ==
    /\ RosterDone /\ ret.kind = "table"
    /\ Len(ret.table.rows) = RosterSize
    /\ \E o \in TeamPlayers \ Returned6 : \E p \in Returned6 :
          /\ df1.rows[o]["minsPg"] = df1.rows[p]["minsPg"]
          /\ df1.rows[o]["usagePct"][1] < df1.rows[p]["usagePct"][1]
          /\ o < p

-----------------------------------------------------------------------------
(* The two rank loops, each on the table it is run on *)

InitLoops == InitTeam \/ InitQual

NextLoops == GetAllTeamStats \/ QualStage

SpecLoops == InitLoops /\ [][NextLoops]_vars

\* a rank loop ran to its end on the table `merged`
LoopDone == pc = "done" /\ path \in {"team", "stage"} /\ ret.kind = "table"

LoopKey == IF path = "team" THEN "teamId" ELSE "playerId"

\* stats_to_rank of the loop that ran
LoopOrder == StatsToRank(merged, LoopKey)

\* every order in which the columns of stats_to_rank can be processed
Orders == {p \in [DOMAIN LoopOrder -> {LoopOrder[k] : k \in DOMAIN LoopOrder}] :
              \A a, b \in DOMAIN p : a # b => p[a] # p[b]}

\* the flag dicts the player loop reads
LoopFlags == [i \in DOMAIN merged.rows |->
                 extract_qual_flags(merged.rows[i]["isQualArray"]).val]

\* the rank loop run over `merged` with its columns processed in the order p
LoopIn(p) == IF path = "team" THEN TeamRankLoop(merged, p)
             ELSE PlayerRankLoop(merged, LoopFlags, p)

\* column c ranked on its own from the table as it was before the loop
AloneRanked(c) ==
    IF path = "team"
    THEN stat_with_ranks(Column(merged, c), merged.dtypes[c],
                         Column(merged, "conferenceId"))
    ELSE stat_with_ranks_qualified(Column(merged, c), merged.dtypes[c],
                                   Column(merged, "conferenceId"), LoopFlags, c)

\* what the call returns from the table the loop produced
LoopOutput(t) ==
    Drop(RowsWhereIn(t, LoopKey, IF path = "team" THEN {req} ELSE req),
         {"isQualArray", "isQualified"})

\* C18: the rank loops give the same table for every order in which the numeric
\* columns are processed, and each column's encoded result is the one obtained by
\* ranking that column alone on the original table.
C18_ColumnOrderIndependent ==
    LoopDone =>
        /\ \A p \in Orders :
              /\ LoopIn(p) = LoopIn(LoopOrder)
              /\ ret.table = LoopOutput(LoopIn(p))
        /\ \A k \in DOMAIN LoopOrder :
              Column(LoopIn(LoopOrder), LoopOrder[k]) = AloneRanked(LoopOrder[k])

\* C18 witness: a loop over two columns and at least two rows in two conferences
\* whose output carries both encoded columns
C18_Witness ==
    /\ LoopDone
    /\ Len(LoopOrder) = 2 /\ Cardinality(Orders) = 2
    /\ Len(merged.rows) >= 2
    /\ \E i, j \in DOMAIN merged.rows :
          merged.rows[i]["conferenceId"] # merged.rows[j]["conferenceId"]
    /\ ret.table.rows # <<>>
    /\ \A k \in DOMAIN LoopOrder :
          Len(Fields(ret.table.rows[1][LoopOrder[k]])) = 3

-----------------------------------------------------------------------------------------------------------------------------------------------------
\* the call got as far as its rank loop: the table `merged` exists with its key
\* and conferenceId held as numbers and, on the player path, with a
\* qualification record in every row that extract_qual_flags can read
LoopReached ==
    /\ pc # "input" /\ path \in {"team", "stage"}
    /\ {LoopKey, "conferenceId"} \subseteq numeric_cols(merged)
    /\ "isQualified" \in merged.cols
    /\ path = "stage" =>
          /\ "isQualArray" \in merged.cols
          /\ \A i \in DOMAIN merged.rows :
                extract_qual_flags(merged.rows[i]["isQualArray"]).exc = "none"

\* the columns the loop ranks
RankedCols == {LoopOrder[k] : k \in DOMAIN LoopOrder}

\* the rows of `merged` that the call was asked for, in table order
AskedRows == RowsWhereIn(merged, LoopKey, IF path = "team" THEN {req} ELSE req).rows

\* the cell is an encoded statistic: three fields, each rank field "_" or digits
EncodedCell(s) ==
    /\ Len(Fields(s)) = 3
    /\ \A k \in {2, 3} : Fields(s)[k] = <<"_">> \/ IsNatStr(Fields(s)[k])

\* C12: a call that reaches its rank loop raises no error, whatever values are
\* missing, and returns every requested row of the table it ranked, ranked or
\* not; in such a row each ranked column holds one encoded entry, with the
\* sentinel in both rank components where the value is missing, and every other
\* column holds the cell it held before the loop.
C12_ExcludedRowsStay ==
    LoopReached =>
        /\ ret.kind = "table"
        /\ Len(ret.table.rows) = Len(AskedRows)
        /\ \A i \in DOMAIN AskedRows :
              LET before == AskedRows[i]
                  after == ret.table.rows[i]
                  kept == (DOMAIN before) \ {"isQualArray", "isQualified"}
              IN  /\ DOMAIN after = kept
                  /\ \A c \in kept \ RankedCols : after[c] = before[c]
                  /\ \A c \in kept \cap RankedCols :
                        /\ EncodedCell(after[c])
                        /\ before[c] = NA =>
                              /\ Fields(after[c])[2] = <<"_">>
                              /\ Fields(after[c])[3] = <<"_">>

\* C12 witness: a returned player table of two rows in which the second row has
\* no atr2FgPct and carries the sentinels there, the first row is ranked first
\* on it, and both rows kept their conferenceId
C12_Witness ==
    /\ LoopReached /\ path = "stage" /\ ret.kind = "table"
    /\ Len(merged.rows) = 2 /\ Len(ret.table.rows) = 2
    /\ "atr2FgPct" \in RankedCols
    /\ merged.rows[2]["atr2FgPct"] = NA
    /\ Fields(ret.table.rows[2]["atr2FgPct"])[2] = <<"_">>
    /\ Fields(ret.table.rows[2]["atr2FgPct"])[3] = <<"_">>
    /\ Fields(ret.table.rows[1]["atr2FgPct"])[2] = <<"1">>
    /\ \A i \in 1..2 :
          ret.table.rows[i]["conferenceId"] = merged.rows[i]["conferenceId"]

-----
(* The agent graph: Loader, tools, PrepareForWriter, GameNotesWriter *)

MaxToolRounds == 2
MaxCalls == 2
MaxRuns == 2

HumanMessage == [type |-> "human", name |-> "", tool_calls |-> <<>>]
ToolMessage == [type |-> "tool", name |-> "", tool_calls |-> <<>>]

\* the message agent_node returns: an AIMessage named after the node, with the
\* list of its tool calls
AIMessage(name, calls) == [type |-> "ai", name |-> name, tool_calls |-> calls]

\* one entry of tool_calls; which tool is called and with what arguments is
\* not modelled, the graph treats every call alike
ToolCall == "tool_call"

\* mutant: the Loader is always followed by the tools node
should_continue_tools(msgs) == "tools"

\* should_continue(state)
should_continue(msgs) ==
    LET last_message == msgs[Len(msgs)]
    IN  IF last_message.type = "ai" /\ last_message.tool_calls # <<>>
        THEN "tools" ELSE "writer"

\* the mapping of add_conditional_edges("Loader", should_continue, {...})
LoaderEdge(r) == IF r = "tools" THEN "tools" ELSE "PrepareForWriter"

\* the record of one executed node: its name and the last message it found
Entered(n) == [node |-> n, last |-> messages[Len(messages)]]

RECURSIVE Repeat(_, _)
Repeat(x, k) == IF k = 0 THEN <<>> ELSE <<x>> \o Repeat(x, k - 1)

\* runs of the graph that have reached END on this thread
Runs == Cardinality({i \in DOMAIN messages : messages[i].name = "GameNotesWriter"})

\* executions of the tools node in the current run
ToolRounds == Cardinality({i \in DOMAIN trace : trace[i].node = "tools"})

\* full_agent.stream({"messages": [user message]}): START, then the edge to Loader
InitGraph ==
    /\ pc = "input" /\ path = "graph"
    /\ dtype = "float" /\ values = <<>> /\ groups = <<>> /\ flags = <<>>
    /\ stat = "" /\ result = <<>> /\ quals = <<>>
    /\ AsmIdle
    /\ node = "Loader"
    /\ messages = <<HumanMessage>>
    /\ trace = <<>>

\* an exception leaves the node that is executing: the node adds no message and
\* no edge is taken; full_agent.stream raises and, uncaught in the main loop
\* (lines 805-819), ends the program
NodeRaises ==
    /\ messages' = messages
    /\ node' = "raised"
    /\ pc' = "raised"

\* the Loader node: agent.invoke either raises (the request to the model fails
\* or times out) or the model answers with some number of tool calls, and then
\* the conditional edge is taken
Loader ==
    /\ path = "graph" /\ node = "Loader"
    /\ \/ NodeRaises
       \/ /\ \E k \in 0..(IF ToolRounds < MaxToolRounds THEN MaxCalls ELSE 0) :
                messages' = Append(messages, AIMessage("Loader", Repeat(ToolCall, k)))
          /\ node' = LoaderEdge(should_continue(messages'))
          /\ pc' = pc
    /\ trace' = Append(trace, Entered("Loader"))
    /\ UNCHANGED rankVars
    /\ UNCHANGED asmVars

\* the tools node, ToolNode(tools) with the default error handling.  A call
\* whose tool returns, and a call whose arguments the tool's schema rejects
\* (the tool is then not executed), each give one ToolMessage; when all calls of
\* the last message have done so the edge back to Loader is taken.  When the
\* execution of a called tool raises, the exception leaves the node
Tools ==
    /\ path = "graph" /\ node = "tools"
    /\ LET calls == messages[Len(messages)].tool_calls
       IN  \/ /\ calls # <<>>
              /\ NodeRaises
           \/ /\ messages' = messages \o Repeat(ToolMessage, Len(calls))
              /\ node' = "Loader"
              /\ pc' = pc
    /\ trace' = Append(trace, Entered("tools"))
    /\ UNCHANGED rankVars
    /\ UNCHANGED asmVars

\* prepare_for_writer, then the edge to GameNotesWriter
PrepareForWriter ==
    /\ path = "graph" /\ node = "PrepareForWriter"
    /\ messages' = Append(messages, HumanMessage)
    /\ node' = "GameNotesWriter"
    /\ trace' = Append(trace, Entered("PrepareForWriter"))
    /\ UNCHANGED <<pc>>
    /\ UNCHANGED rankVars
    /\ UNCHANGED asmVars

\* the GameNotesWriter node, an agent whose model has no tools bound: agent.invoke
\* either raises or answers with a message that has no tool calls, and then the
\* edge to END is taken
GameNotesWriter ==
    /\ path = "graph" /\ node = "GameNotesWriter"
    /\ \/ NodeRaises
       \/ /\ messages' = Append(messages, AIMessage("GameNotesWriter", <<>>))
          /\ node' = "END"
          /\ pc' = "done"
    /\ trace' = Append(trace, Entered("GameNotesWriter"))
    /\ UNCHANGED rankVars
    /\ UNCHANGED asmVars

\* the next user input on the same thread: the checkpointed messages are kept
\* and a new run starts at Loader
NewRun ==
    /\ path = "graph" /\ node = "END" /\ Runs < MaxRuns
    /\ messages' = Append(messages, HumanMessage)
    /\ node' = "Loader"
    /\ trace' = <<>>
    /\ pc' = "input"
    /\ UNCHANGED rankVars
    /\ UNCHANGED asmVars

NextGraph == Loader \/ Tools \/ PrepareForWriter \/ GameNotesWriter \/ NewRun

SpecGraph == InitGraph /\ [][NextGraph]_vars

\* the node that runs after the i-th executed node of the current run
Following(i) == IF i < Len(trace) THEN trace[i + 1].node ELSE node

\* the last message on the thread when the i-th executed node had finished
LeftBy(i) == IF i < Len(trace) THEN trace[i + 1].last ELSE messages[Len(messages)]

LoaderSaid(m, withCalls) ==
    /\ m.type = "ai" /\ m.name = "Loader"
    /\ (m.tool_calls # <<>>) = withCalls

\* the run has ended: at END, or by an exception
RunEnded == node \in {"END", "raised"}

\* C19 as stated: every run starts at Loader; the tools node runs only right
\* after a Loader message with tool calls and always hands control back to
\* Loader; PrepareForWriter runs only right after a Loader message without tool
\* calls; GameNotesWriter runs at most once, only right after PrepareForWriter,
\* and the run ends right after it.
C19_Original ==
    path = "graph" =>
        /\ trace # <<>> => trace[1].node = "Loader"
        /\ \A i \in DOMAIN trace :
            /\ trace[i].node = "tools" =>
                 /\ i > 1 /\ trace[i - 1].node = "Loader"
                 /\ LoaderSaid(trace[i].last, TRUE)
                 /\ Following(i) = "Loader"
            /\ trace[i].node = "PrepareForWriter" =>
                 /\ i > 1 /\ trace[i - 1].node = "Loader"
                 /\ LoaderSaid(trace[i].last, FALSE)
                 /\ Following(i) = "GameNotesWriter"
            /\ trace[i].node = "GameNotesWriter" =>
                 /\ i > 1 /\ trace[i - 1].node = "PrepareForWriter"
                 /\ i = Len(trace) /\ RunEnded
        /\ Cardinality({i \in DOMAIN trace : trace[i].node = "GameNotesWriter"}) <= 1

\* C19: every run starts at Loader; the tools node runs only right after a
\* Loader message with tool calls, and it hands control back to Loader, with
\* the tool messages added, unless the execution of a tool raised: then the
\* run ends at the tools node, no message is added and the writer is not
\* reached; PrepareForWriter runs only right after a Loader message without
\* tool calls; GameNotesWriter runs at most once, only right after
\* PrepareForWriter, and the run ends right after it, so neither tools nor
\* Loader runs after the writer has started.
C19_CollectThenNarrate ==
    path = "graph" =>
        /\ trace # <<>> => trace[1].node = "Loader"
        /\ trace = <<>> => node = "Loader"
        /\ \A i \in DOMAIN trace :
            /\ trace[i].node = "tools" =>
                 /\ i > 1 /\ trace[i - 1].node = "Loader"
                 /\ LoaderSaid(trace[i].last, TRUE)
                 /\ \/ Following(i) = "Loader" /\ LeftBy(i) = ToolMessage
                    \/ /\ Following(i) = "raised" /\ i = Len(trace)
                       /\ LeftBy(i) = trace[i].last
                       /\ \A j \in DOMAIN trace :
                            trace[j].node \notin {"PrepareForWriter", "GameNotesWriter"}
            /\ trace[i].node = "PrepareForWriter" =>
                 /\ i > 1 /\ trace[i - 1].node = "Loader"
                 /\ LoaderSaid(trace[i].last, FALSE)
                 /\ Following(i) = "GameNotesWriter"
            /\ trace[i].node = "GameNotesWriter" =>
                 /\ i > 1 /\ trace[i - 1].node = "PrepareForWriter"
                 /\ i = Len(trace) /\ RunEnded
                 /\ LeftBy(i).tool_calls = <<>>
            /\ trace[i].node = "Loader" =>
                 /\ Following(i) \in {"tools", "PrepareForWriter", "raised"}
                 /\ Following(i) = "tools" => LoaderSaid(LeftBy(i), TRUE)
                 /\ Following(i) = "PrepareForWriter" => LoaderSaid(LeftBy(i), FALSE)
        /\ Cardinality({i \in DOMAIN trace : trace[i].node = "GameNotesWriter"}) <= 1
        /\ node = "END" =>
              /\ trace[Len(trace)].node = "GameNotesWriter"
              /\ messages[Len(messages)].name = "GameNotesWriter"
        /\ node = "raised" =>
              /\ pc = "raised"
              /\ messages[Len(messages)] = trace[Len(trace)].last

\* C19 witness: on a thread whose first run ended after a round of tool calls,
\* the second run went through one round of tools that returned and was ended
\* by a tool that raised in the next round
C19_Witness ==
    /\ path = "graph" /\ node = "raised" /\ Runs = 1
    /\ trace[Len(trace)].node = "tools"
    /\ ToolRounds = 2
    /\ \E i \in DOMAIN messages : messages[i].type = "tool" /\ i < Len(messages) - 4

-----------------------------------------------------------------------------
\* a well-formed player input: both sources hold every requested player, with a
\* list of {zoneName, isQualified} dicts as qualification record
WellFormedRequest ==
    /\ Assembled /\ path = "player" /\ HaveKey
    /\ req # {} /\ req \subseteq KeysOf(df1) \cap KeysOf(df2)
    /\ \A i \in DOMAIN df1.rows :
          extract_qual_flags(df1.rows[i]["isQualArray"]).exc = "none"

\* C20: in get_all_player_stats the projection of the merged table onto
\* keep_cols keeps the isQualArray column, so for a well-formed input that holds
\* the requested players the call reaches the rank loop and returns a table.
C20_Original ==
    WellFormedRequest =>
        /\ "isQualArray" \in Project(merged, keep_cols).cols
        /\ ret.kind = "table"

=============================================================================
